---- MODULE Spec2Model ----
(***************************************************************************)
(* The two video exercise scripts of the repository as one state machine.  *)
(*                                                                         *)
(*   exer1: KenCinco_Exer1.py - process_video, run twice by the script     *)
(*          (contrast_mode 'linear', then 'sine').                         *)
(*   exer3: KenCinco_Exer3.py - the __main__ driver, apply_gradual_rotation*)
(*          and create_test_video.                                         *)
(*                                                                         *)
(* The video library is the environment: whether a VideoWriter opens is a  *)
(* nondeterministic outcome of each open; a file on disk has a declared    *)
(* frame count (CAP_PROP_FRAME_COUNT) and a number of frames it actually   *)
(* yields, which may differ.  A write to a VideoWriter that is not opened  *)
(* stores nothing.  Floating point values are kept as exact rationals      *)
(* <<numerator, denominator>> with a positive denominator; cos and sin are *)
(* fixed-point (thousandths), exact at the multiples of 90 degrees.        *)
(***************************************************************************)
EXTENDS Integers, Sequences, FiniteSets, TLC

VARIABLES
    script,         \* "exer1" or "exer3": which script is running
    pc,             \* position in the script
    run,            \* number of the current call of the pipeline function (1 or 2)
    inputFile,      \* the file my_test_video.mp4 on disk
    aviFile,        \* the file my_test_video.avi on disk
    input_path,     \* argument of the current call: "mp4" or "avi"
    contrast_mode,  \* argument of process_video
    final_angle,    \* argument of apply_gradual_rotation
    capOpen,        \* cap.isOpened()
    outOpen,        \* per sink: the VideoWriter is opened
    outFile,        \* per sink: the frames stored in the output file of this call
    total_frames,   \* local of the call (declared frame count)
    width,          \* local of the call
    height,         \* local of the call
    frame_idx,      \* loop counter
    nread,          \* frames cap.read() has returned in this call
    progress,       \* last computed progress, a rational
    fallbacks,      \* fallback opens attempted in this call
    sinksOpened,    \* sinks whose VideoWriter opened at some point of this call
    log,            \* messages printed by this call
    ret,            \* "running", or how the call ended: "None", "True", "False", "exception"
    events,         \* error conditions that occurred in this call
    created,        \* number of create_test_video calls
    createdWhileReadable \* create_test_video was called while the input video was readable

vars == <<script, pc, run, inputFile, aviFile, input_path, contrast_mode, final_angle,
          capOpen, outOpen, outFile, total_frames, width, height, frame_idx, nread,
          progress, fallbacks, sinksOpened, log, ret, events, created, createdWhileReadable>>

\* Bounds of the model.
MaxFrames == 4

\* Program constants.
DefaultFinalAngle == 360
TestDuration == 5
TestFps == 30
TestWidth == 640
TestHeight == 480

FinalAngles == {DefaultFinalAngle, -90}
\* Canvas sizes <<width, height>>: square, landscape, portrait.
Sizes == {<<2, 2>>, <<3, 2>>, <<2, 3>>}
Sinks == {"out", "normal", "scaled"}
SinksOf(s) == IF s = "exer1" THEN {"out"} ELSE {"normal", "scaled"}

NoFile == [exists |-> FALSE, declared |-> 0, actual |-> 0, w |-> 0, h |-> 0]
VideoFile(n, a, w, h) == [exists |-> TRUE, declared |-> n, actual |-> a, w |-> w, h |-> h]
InputFiles ==
    {NoFile} \cup
    { VideoFile(n, a, sz[1], sz[2]) : n \in 0..MaxFrames, a \in 0..MaxFrames, sz \in Sizes }

\* The file create_test_video writes: duration * fps frames of the given size.
TestVideo == VideoFile(TestDuration * TestFps, TestDuration * TestFps, TestWidth, TestHeight)

FileAt(path) == IF path = "mp4" THEN inputFile ELSE aviFile

(***************************************************************************)
(* Arithmetic helpers                                                      *)
(***************************************************************************)
Abs(x) == IF x < 0 THEN -x ELSE x

\* sin at 0, 15, ..., 90 degrees, in thousandths.
SinTab == <<0, 259, 500, 707, 866, 966, 1000>>

\* sin of x/d degrees for 0 <= x/d <= 90, in thousandths (linear interpolation).
SinQ(x, d) ==
    LET k == x \div (15 * d)
        r == x - (15 * d * k)
    IN  IF k >= 6 THEN 1000
        ELSE SinTab[k + 1] + (((SinTab[k + 2] - SinTab[k + 1]) * r) \div (15 * d))

\* The angle n/d degrees folded into [0, 90]: |sin| and |cos| have period 180.
Fold(n, d) ==
    LET x == Abs(n) % (180 * d)
    IN  IF x > 90 * d THEN (180 * d) - x ELSE x

\* np.abs(np.sin(angle)) and np.abs(np.cos(angle)), in thousandths.
AbsSin(n, d) == SinQ(Fold(n, d), d)
AbsCos(n, d) == SinQ((90 * d) - Fold(n, d), d)

\* math.sin of n/d degrees, n >= 0, in thousandths.
Sin(n, d) ==
    LET x == n % (360 * d)
    IN  IF x < 180 * d THEN AbsSin(x, d) ELSE -AbsSin(x, d)

(***************************************************************************)
(* Pure computations of the two transforms                                 *)
(***************************************************************************)
\* Exer1 line 32: progress = frame_idx / total_frames (total_frames # 0).
ContrastProgress(idx, total) == <<idx, total>>

\* Exer1 lines 35-40: the contrast factor for a progress value p.
Alpha(mode, p) ==
    IF mode = "linear" THEN <<(8 * p[2]) + (7 * p[1]), 10 * p[2]>>
    ELSE IF mode = "sine" THEN <<1150000 + (350 * Sin(720 * p[1], p[2])), 1000000>>
    ELSE <<1, 1>>

\* A plausible slip: the contrast script's denominator used in the rotation script.
RotationProgressSameAsContrast(idx, total) == IF total > 1 THEN <<idx, total>> ELSE <<0, 1>>

\* Exer3 line 111: progress = frame_idx / (total_frames - 1) if total_frames > 1 else 0.
RotationProgress(idx, total) == IF total > 1 THEN <<idx, total - 1>> ELSE <<0, 1>>

\* Exer3 line 112: current_angle = final_angle * progress.
CurrentAngle(fa, p) == <<fa * p[1], p[2]>>

\* Exer3 lines 126-137: the scale of the scaled variant for an angle a (degrees).
ScalingFactor(a, w, h) ==
    IF a[1] % (90 * a[2]) # 0
    THEN LET cos_angle == AbsCos(a[1], a[2])
             sin_angle == AbsSin(a[1], a[2])
             new_width == (w * cos_angle) + (h * sin_angle)
             new_height == (w * sin_angle) + (h * cos_angle)
         IN  IF w * new_height <= h * new_width
             THEN <<w * 1000, new_width>>
             ELSE <<h * 1000, new_height>>
    ELSE <<1, 1>>

(***************************************************************************)
(* State at the start of a call of a pipeline function                     *)
(***************************************************************************)
NoSinkOpen == [s \in Sinks |-> FALSE]
EmptySinks == [s \in Sinks |-> <<>>]

Init ==
    /\ script \in {"exer1", "exer3"}
    /\ pc = IF script = "exer1" THEN "pv_open" ELSE "rot_open"
    /\ run = 1
    /\ inputFile \in InputFiles
    /\ aviFile = NoFile
    /\ input_path = "mp4"
    /\ contrast_mode = "linear"
    /\ final_angle \in (IF script = "exer1" THEN {DefaultFinalAngle} ELSE FinalAngles)
    /\ capOpen = FALSE
    /\ outOpen = NoSinkOpen
    /\ outFile = EmptySinks
    /\ total_frames = 0
    /\ width = 0
    /\ height = 0
    /\ frame_idx = 0
    /\ nread = 0
    /\ progress = <<0, 1>>
    /\ fallbacks = 0
    /\ sinksOpened = {}
    /\ log = {}
    /\ ret = "running"
    /\ events = {}
    /\ created = 0
    /\ createdWhileReadable = FALSE

\* The locals and the handles of a new call; the disk and the driver's state stay.
NewCall ==
    /\ capOpen' = FALSE
    /\ outOpen' = NoSinkOpen
    /\ outFile' = EmptySinks
    /\ total_frames' = 0
    /\ width' = 0
    /\ height' = 0
    /\ frame_idx' = 0
    /\ nread' = 0
    /\ progress' = <<0, 1>>
    /\ fallbacks' = 0
    /\ sinksOpened' = {}
    /\ log' = {}
    /\ ret' = "running"
    /\ events' = {}

(***************************************************************************)
(* Exer1: process_video and the script that calls it twice                 *)
(***************************************************************************)
\* Lines 7-16: open the source; on failure print the error and return.
PV_Open ==
    /\ pc = "pv_open"
    /\ UNCHANGED sinksOpened
    /\ IF FileAt(input_path).exists
       THEN /\ capOpen' = TRUE
            /\ total_frames' = FileAt(input_path).declared
            /\ width' = FileAt(input_path).w
            /\ height' = FileAt(input_path).h
            /\ pc' = "pv_writer"
            /\ UNCHANGED <<log, ret, events>>
       ELSE /\ log' = log \cup {"Error: Could not open video"}
            /\ ret' = "None"
            /\ events' = events \cup {"SourceOpenFailure"}
            /\ pc' = "pv_return"
            /\ UNCHANGED <<capOpen, total_frames, width, height>>
    /\ UNCHANGED <<script, run, inputFile, aviFile, input_path, contrast_mode, final_angle,
                   outOpen, outFile, frame_idx, nread, progress, fallbacks, created, createdWhileReadable>>

\* Lines 19-22: create the writer (its result is never tested), frame_idx = 0.
PV_Writer ==
    /\ pc = "pv_writer"
    /\ \E ok \in BOOLEAN :
          /\ outOpen' = [outOpen EXCEPT !["out"] = ok]
          /\ sinksOpened' = sinksOpened \cup (IF ok THEN {"out"} ELSE {})
          /\ events' = IF ok THEN events
                       ELSE events \cup {"PrimaryOpenFailure", "SinkOpenFailure"}
    /\ outFile' = [outFile EXCEPT !["out"] = <<>>]
    /\ frame_idx' = 0
    /\ pc' = "pv_loop"
    /\ UNCHANGED <<script, run, inputFile, aviFile, input_path, contrast_mode, final_angle,
                   capOpen, total_frames, width, height, nread, progress, fallbacks,
                   log, ret, created, createdWhileReadable>>

\* Lines 23-26: while cap.isOpened(): read; leave the loop when no frame comes.
PV_Read ==
    /\ pc = "pv_loop"
    /\ UNCHANGED sinksOpened
    /\ capOpen
    /\ IF nread < FileAt(input_path).actual
       THEN /\ nread' = nread + 1
            /\ pc' = "pv_body"
            /\ UNCHANGED events
       ELSE /\ pc' = "pv_release"
            /\ events' = events
                         \cup (IF nread < total_frames THEN {"PrematureEndOfStream"} ELSE {})
                         \cup (IF nread = 0 THEN {"NoFrames"} ELSE {})
            /\ UNCHANGED nread
    /\ UNCHANGED <<script, run, inputFile, aviFile, input_path, contrast_mode, final_angle,
                   capOpen, outOpen, outFile, total_frames, width, height, frame_idx,
                   progress, fallbacks, log, ret, created, createdWhileReadable>>

\* Lines 29-50: progress, alpha, the adjusted frame, out.write, frame_idx += 1.
\* total_frames = 0 makes line 32 raise ZeroDivisionError, which nothing catches.
PV_Body ==
    /\ pc = "pv_body"
    /\ UNCHANGED sinksOpened
    /\ IF total_frames = 0
       THEN /\ ret' = "exception"
            /\ pc' = "pv_crashed"
            /\ UNCHANGED <<progress, outFile, frame_idx>>
       ELSE /\ progress' = ContrastProgress(frame_idx, total_frames)
            /\ outFile' = IF outOpen["out"]
                          THEN [outFile EXCEPT !["out"] =
                                   Append(@, [src |-> nread,
                                              alpha |-> Alpha(contrast_mode, progress')])]
                          ELSE outFile
            /\ frame_idx' = frame_idx + 1
            /\ pc' = "pv_loop"
            /\ UNCHANGED ret
    /\ UNCHANGED <<script, run, inputFile, aviFile, input_path, contrast_mode, final_angle,
                   capOpen, outOpen, total_frames, width, height, nread, fallbacks,
                   log, events, created, createdWhileReadable>>

\* Lines 53-55: release both handles, print the success message, return.
PV_Release ==
    /\ pc = "pv_release"
    /\ UNCHANGED sinksOpened
    /\ capOpen' = FALSE
    /\ outOpen' = [outOpen EXCEPT !["out"] = FALSE]
    /\ log' = log \cup {"Output saved"}
    /\ ret' = "None"
    /\ pc' = "pv_return"
    /\ UNCHANGED <<script, run, inputFile, aviFile, input_path, contrast_mode, final_angle,
                   outFile, total_frames, width, height, frame_idx, nread, progress,
                   fallbacks, events, created, createdWhileReadable>>

\* Lines 62-63: after the 'linear' call returns, the script makes the 'sine' call.
PV_SecondCall ==
    /\ pc = "pv_return"
    /\ run = 1
    /\ run' = 2
    /\ contrast_mode' = "sine"
    /\ NewCall
    /\ pc' = "pv_open"
    /\ UNCHANGED <<script, inputFile, aviFile, input_path, final_angle, created, createdWhileReadable>>

(***************************************************************************)
(* Exer3: apply_gradual_rotation, create_test_video and the driver         *)
(***************************************************************************)
\* Lines 65-76: open the source and read its properties; on failure print the
\* error and return False.
Rot_Open ==
    /\ pc = "rot_open"
    /\ UNCHANGED sinksOpened
    /\ IF FileAt(input_path).exists
       THEN /\ capOpen' = TRUE
            /\ total_frames' = FileAt(input_path).declared
            /\ width' = FileAt(input_path).w
            /\ height' = FileAt(input_path).h
            /\ pc' = "rot_writers"
            /\ UNCHANGED <<log, ret, events>>
       ELSE /\ log' = log \cup {"Error: Cannot open"}
            /\ ret' = "False"
            /\ events' = events \cup {"SourceOpenFailure"}
            /\ pc' = "rot_return"
            /\ UNCHANGED <<capOpen, total_frames, width, height>>
    /\ UNCHANGED <<script, run, inputFile, aviFile, input_path, contrast_mode, final_angle,
                   outOpen, outFile, frame_idx, nread, progress, fallbacks, created, createdWhileReadable>>

\* Lines 79-85: create both writers with mp4v and test that both opened.
Rot_Writers ==
    /\ pc = "rot_writers"
    /\ \E okNormal \in BOOLEAN, okScaled \in BOOLEAN :
          /\ outOpen' = [outOpen EXCEPT !["normal"] = okNormal, !["scaled"] = okScaled]
          /\ sinksOpened' = sinksOpened \cup (IF okNormal THEN {"normal"} ELSE {})
                                         \cup (IF okScaled THEN {"scaled"} ELSE {})
          /\ IF okNormal /\ okScaled
             THEN /\ pc' = "rot_loop"
                  /\ UNCHANGED <<log, events>>
             ELSE /\ pc' = "rot_fallback"
                  /\ log' = log \cup {"Warning: Trying XVID"}
                  /\ events' = events \cup {"PrimaryOpenFailure"}
    /\ UNCHANGED <<script, run, inputFile, aviFile, input_path, contrast_mode, final_angle,
                   capOpen, outFile, total_frames, width, height, frame_idx, nread,
                   progress, fallbacks, ret, created, createdWhileReadable>>

\* Lines 87-99: release both writers, create them again with XVID; when one of
\* them is still not opened print the error and return False.
Rot_Fallback ==
    /\ pc = "rot_fallback"
    /\ fallbacks' = fallbacks + 1
    /\ \E okNormal \in BOOLEAN, okScaled \in BOOLEAN :
          /\ outOpen' = [outOpen EXCEPT !["normal"] = okNormal, !["scaled"] = okScaled]
          /\ sinksOpened' = sinksOpened \cup (IF okNormal THEN {"normal"} ELSE {})
                                         \cup (IF okScaled THEN {"scaled"} ELSE {})
          /\ IF okNormal /\ okScaled
             THEN /\ pc' = "rot_loop"
                  /\ UNCHANGED <<log, ret, events>>
             ELSE /\ log' = log \cup {"Error: Could not initialize VideoWriter"}
                  /\ ret' = "False"
                  /\ events' = events \cup {"SinkOpenFailure"}
                  /\ pc' = "rot_return"
    /\ UNCHANGED <<script, run, inputFile, aviFile, input_path, contrast_mode, final_angle,
                   capOpen, outFile, total_frames, width, height, frame_idx, nread,
                   progress, created, createdWhileReadable>>

\* Lines 105-108: the next value of range(total_frames), then cap.read(); leave
\* the loop when the range is exhausted or no frame comes.
Rot_Read ==
    /\ pc = "rot_loop"
    /\ UNCHANGED sinksOpened
    /\ IF frame_idx < total_frames /\ nread < FileAt(input_path).actual
       THEN /\ nread' = nread + 1
            /\ pc' = "rot_normal"
            /\ UNCHANGED events
       ELSE /\ pc' = "rot_release"
            /\ events' = IF frame_idx < total_frames
                         THEN events \cup {"PrematureEndOfStream"}
                                     \cup (IF nread = 0 THEN {"NoFrames"} ELSE {})
                         ELSE events
            /\ UNCHANGED nread
    /\ UNCHANGED <<script, run, inputFile, aviFile, input_path, contrast_mode, final_angle,
                   capOpen, outOpen, outFile, total_frames, width, height, frame_idx,
                   progress, fallbacks, log, ret, created, createdWhileReadable>>

\* Lines 111-122: progress, current_angle, the frame rotated with scale 1.0,
\* written to out_normal.
Rot_Normal ==
    /\ pc = "rot_normal"
    /\ UNCHANGED sinksOpened
    /\ progress' = RotationProgress(frame_idx, total_frames)
    /\ outFile' = IF outOpen["normal"]
                  THEN [outFile EXCEPT !["normal"] =
                           Append(@, [src |-> nread,
                                      angle |-> CurrentAngle(final_angle, progress'),
                                      scale |-> <<1, 1>>])]
                  ELSE outFile
    /\ pc' = "rot_scaled"
    /\ UNCHANGED <<script, run, inputFile, aviFile, input_path, contrast_mode, final_angle,
                   capOpen, outOpen, total_frames, width, height, frame_idx, nread,
                   fallbacks, log, ret, events, created, createdWhileReadable>>

\* Lines 126-151: the scaling factor for current_angle, the frame rotated and
\* scaled, written to out_scaled; the loop counter advances.
Rot_Scaled ==
    /\ pc = "rot_scaled"
    /\ UNCHANGED sinksOpened
    /\ LET current_angle == CurrentAngle(final_angle, progress)
       IN  outFile' = IF outOpen["scaled"]
                      THEN [outFile EXCEPT !["scaled"] =
                               Append(@, [src |-> nread,
                                          angle |-> current_angle,
                                          scale |-> ScalingFactor(current_angle, width, height)])]
                      ELSE outFile
    /\ frame_idx' = frame_idx + 1
    /\ pc' = "rot_loop"
    /\ UNCHANGED <<script, run, inputFile, aviFile, input_path, contrast_mode, final_angle,
                   capOpen, outOpen, total_frames, width, height, nread, progress,
                   fallbacks, log, ret, events, created, createdWhileReadable>>

\* Lines 154-160: release the three handles, print where the outputs are, return True.
Rot_Release ==
    /\ pc = "rot_release"
    /\ UNCHANGED sinksOpened
    /\ capOpen' = FALSE
    /\ outOpen' = [outOpen EXCEPT !["normal"] = FALSE, !["scaled"] = FALSE]
    /\ log' = log \cup {"Output saved"}
    /\ ret' = "True"
    /\ pc' = "rot_return"
    /\ UNCHANGED <<script, run, inputFile, aviFile, input_path, contrast_mode, final_angle,
                   outFile, total_frames, width, height, frame_idx, nread, progress,
                   fallbacks, events, created, createdWhileReadable>>

\* Lines 171-174: the first call returned True: the driver is done.
Main_Done ==
    /\ pc = "rot_return"
    /\ UNCHANGED sinksOpened
    /\ run = 1
    /\ ret = "True"
    /\ pc' = "exit"
    /\ UNCHANGED <<script, run, inputFile, aviFile, input_path, contrast_mode, final_angle,
                   capOpen, outOpen, outFile, total_frames, width, height, frame_idx, nread,
                   progress, fallbacks, log, ret, events, created, createdWhileReadable>>

\* Lines 174-178 with create_test_video (lines 9-48): the first call returned
\* False, so the driver writes the test video to my_test_video.mp4, or to
\* my_test_video.avi when the mp4v writer does not open, and calls
\* apply_gradual_rotation on the path create_test_video returns.
Main_CreateTestVideo ==
    /\ pc = "rot_return"
    /\ run = 1
    /\ ret = "False"
    /\ created' = created + 1
    /\ \E okMp4 \in BOOLEAN, okAvi \in BOOLEAN :
          /\ inputFile' = IF okMp4 THEN TestVideo ELSE inputFile
          /\ aviFile' = IF ~okMp4 /\ okAvi THEN TestVideo ELSE aviFile
          /\ input_path' = IF okMp4 THEN "mp4" ELSE "avi"
    /\ createdWhileReadable' = inputFile.exists
    /\ run' = 2
    /\ NewCall
    /\ pc' = "rot_open"
    /\ UNCHANGED <<script, contrast_mode, final_angle>>

Next ==
    \/ PV_Open
    \/ PV_Writer
    \/ PV_Read
    \/ PV_Body
    \/ PV_Release
    \/ PV_SecondCall
    \/ Rot_Open
    \/ Rot_Writers
    \/ Rot_Fallback
    \/ Rot_Read
    \/ Rot_Normal
    \/ Rot_Scaled
    \/ Rot_Release
    \/ Main_Done
    \/ Main_CreateTestVideo

Spec == Init /\ [][Next]_vars

(***************************************************************************)
(* Properties                                                              *)
(***************************************************************************)
Returned == ret \in {"None", "True", "False"}
ErrorKinds == {"SourceOpenFailure", "SinkOpenFailure", "PrematureEndOfStream"}
ErrorMessages == {"Error: Could not open video", "Error: Cannot open",
                  "Error: Could not initialize VideoWriter"}
NoHandleOpen == ~capOpen /\ \A s \in Sinks : ~outOpen[s]
NothingWritten == \A s \in Sinks : outFile[s] = <<>>
InSourceOrder(f) == \A j \in 1..Len(f) : f[j].src = j

\* The value of rational a is at most the value of rational b.
RatLeq(a, b) == a[1] * b[2] <= b[1] * a[2]

\* The bounding box of the w x h rectangle rotated by angle a and scaled by sc
\* lies within (w, h).
Fits(a, sc, w, h) ==
    LET c == AbsCos(a[1], a[2])
        sn == AbsSin(a[1], a[2])
    IN  /\ sc[1] * ((w * c) + (h * sn)) <= w * sc[2] * 1000
        /\ sc[1] * ((w * sn) + (h * c)) <= h * sc[2] * 1000

\* C1: when a call of either pipeline has returned, on whatever path, the source
\* handle and every sink handle it opened are released.
C1_HandlesReleasedOnReturn == Returned => NoHandleOpen

\* C2: a call whose source could not be opened, or whose first read gave no
\* frame, reports failure (no success return, no 'output saved' message), has
\* opened no sink and has written no frame.
C2_NoSourceNoWrites ==
    (Returned /\ (events \cap {"SourceOpenFailure", "NoFrames"}) # {})
        => /\ "Output saved" \notin log
           /\ ret # "True"
           /\ sinksOpened = {}
           /\ NothingWritten

\* C3: once the primary sink open has failed exactly one fallback open is made
\* before any frame is read; never more than one fallback is made; and a call
\* that returned after the fallback failed too has read and written nothing and
\* leaves no sink handle open.
C3_OneFallbackThenCleanAbort ==
    /\ fallbacks <= 1
    /\ ("PrimaryOpenFailure" \in events /\ pc \notin {"rot_fallback"}) => fallbacks = 1
    /\ (Returned /\ "SinkOpenFailure" \in events)
          => /\ nread = 0
             /\ NothingWritten
             /\ \A s \in Sinks : ~outOpen[s]

\* C4: when the source ends after k frames, k below the declared count, the loop
\* has stopped, no exception was raised, the call goes on to its normal return,
\* and every sink of the pipeline holds exactly the k frames read, in order.
C4_PrematureEndStopsLoop ==
    "PrematureEndOfStream" \in events
        => /\ pc \in {"pv_release", "pv_return", "rot_release", "rot_return", "exit"}
           /\ ret \in {"running", "None", "True"}
           /\ \A s \in SinksOf(script) : Len(outFile[s]) = nread /\ InSourceOrder(outFile[s])

\* C5: a call in which a source-open failure, a sink-open failure or a premature
\* end of stream occurred has, when it returns, reported it: an error message
\* was printed or the failure value returned.
C5_ErrorsReported ==
    (Returned /\ (events \cap ErrorKinds) # {})
        => (ret = "False" \/ (log \cap ErrorMessages) # {})

\* C6: the progress computation never divides by zero and every progress value
\* lies in [0, 1].
C6_ProgressInUnitInterval ==
    /\ ret # "exception"
    /\ progress[2] > 0
    /\ 0 <= progress[1]
    /\ progress[1] <= progress[2]

\* C7: every frame of the scaled output was rotated with a scale for which the
\* bounding box of the rotated, scaled source rectangle fits the canvas.
C7_ScaledNeverClipped ==
    \A j \in 1..Len(outFile["scaled"]) :
        Fits(outFile["scaled"][j].angle, outFile["scaled"][j].scale, width, height)

\* The angle formula of C8: frame i (counted from 0) of the normal output is
\* rotated by final_angle * i / (N - 1) when N > 1 and by 0 when N = 1, with
\* scale 1.0; the scaled output uses the same angle for the same frame; the
\* first frame is rotated by 0; the angles are monotonic in i.
AngleFormula ==
    LET n == outFile["normal"]
        sc == outFile["scaled"]
    IN  /\ \A j \in 1..Len(n) :
              /\ n[j].scale = <<1, 1>>
              /\ n[j].angle[2] > 0
              /\ IF total_frames > 1
                 THEN n[j].angle[1] * (total_frames - 1) = final_angle * (j - 1) * n[j].angle[2]
                 ELSE n[j].angle[1] = 0
        /\ Len(sc) <= Len(n)
        /\ \A j \in 1..Len(sc) : sc[j].angle = n[j].angle
        /\ Len(n) >= 1 => n[1].angle[1] = 0
        /\ \A j \in 1..(Len(n) - 1) :
              IF final_angle >= 0 THEN RatLeq(n[j].angle, n[j + 1].angle)
                                  ELSE RatLeq(n[j + 1].angle, n[j].angle)

\* The last frame of a clip read in full is rotated by exactly final_angle.
LastFrameAtFinalAngle ==
    LET n == outFile["normal"]
    IN  n[Len(n)].angle[1] = final_angle * n[Len(n)].angle[2]

AllFramesRotated ==
    /\ script = "exer3"
    /\ total_frames >= 1
    /\ Len(outFile["normal"]) = total_frames
    /\ Len(outFile["scaled"]) = total_frames

\* C8 as stated: the angle formula, and for every clip of N >= 1 declared frames
\* read in full the last frame is rotated by exactly final_angle.
C8_LastFrameAlwaysFinalAngle ==
    /\ AngleFormula
    /\ AllFramesRotated => LastFrameAtFinalAngle

\* C8 amended: the angle formula, and for every clip of N > 1 declared frames
\* read in full the last frame is rotated by exactly final_angle (a clip of one
\* frame is rotated by 0).
C8_AngleProgression ==
    /\ AngleFormula
    /\ (AllFramesRotated /\ total_frames > 1) => LastFrameAtFinalAngle

\* C8 witness: a clip of several frames was read in full and written to both
\* outputs, the last frame at a non-zero final angle, the scaled variant with a
\* scale other than 1.0 for some frame.
C8_Witness ==
    /\ AllFramesRotated
    /\ total_frames > 2
    /\ pc = "rot_return"
    /\ ret = "True"
    /\ \E j \in 1..total_frames : outFile["scaled"][j].scale # <<1, 1>>

\* C9: frames go through one at a time and in source order: every sink of the
\* pipeline holds as many frames as were read, or one fewer; the two rotation
\* outputs differ by at most one frame and are level between iterations; frame j
\* of every output comes from frame j of the input.
C9_OneFrameAtATime ==
    /\ \A s \in SinksOf(script) :
          /\ Len(outFile[s]) \in {nread, nread - 1}
          /\ InSourceOrder(outFile[s])
    /\ Len(outFile["normal"]) - Len(outFile["scaled"]) \in {0, 1}
    /\ pc = "rot_loop" => Len(outFile["normal"]) = Len(outFile["scaled"])

\* C10: the driver calls create_test_video only when the input video could not
\* be opened, never while the input video is readable, and calls
\* apply_gradual_rotation at most twice.
C10_TestVideoOnlyWhenInputMissing ==
    /\ ~createdWhileReadable
    /\ run <= 2
    /\ created <= 1

====
